---- MODULE Spec2Model ----
(***************************************************************************)
(* A model of cricko-api (src/main.py): the three scraping endpoints       *)
(* /schedule, /match and /teams, the process-wide CACHE in front of them,  *)
(* and the pure mapping code they call (URL canonicalisation, home/away    *)
(* resolution, format_innings with its fielding aggregation).              *)
(*                                                                         *)
(* Conventions for Python values                                           *)
(*   - an optional value (JSON null, or a key that is missing where the    *)
(*     code reads it with .get(k)) is a sequence of length at most one:    *)
(*     None is << >> and a present value v is << v >>;                     *)
(*   - a list is a sequence, a dict is a record;                           *)
(*   - a dict whose keys are computed and a list that is the data of a     *)
(*     response are records holding their items;                           *)
(*   - code that may raise yields Ok(value) or Raised(exception);          *)
(*   - a URL is a sequence of symbols: "a" is an ordinary character, "/"   *)
(*     and "?" are themselves, "L" is the text live-cricket-score and "s"  *)
(*     is the text series.                                                 *)
(***************************************************************************)
EXTENDS Integers, Sequences, FiniteSets, TLC

VARIABLES
    now,      \* time.time(), in seconds
    CACHE,    \* main.py:35, canonical URL -> {expiry, data}; absent keys are not in DOMAIN
    pending,  \* requests that have arrived and wait for the event loop
    served,   \* number of requests handled so far (bounds the model)
    last,     \* history: what the handler that ran last saw and did
    stored,   \* history: per key, when and by which request it was last written
    pc,       \* position of the pure-function harness: "in" or "out"
    arg,      \* input of the pure function under check
    ret       \* its result

vars == <<now, CACHE, pending, served, last, stored, pc, arg, ret>>
serverVars == <<now, CACHE, pending, served, last, stored>>
pureVars == <<pc, arg, ret>>

None == << >>
Some(v) == << v >>

Range(s) == {s[i] : i \in 1..Len(s)}

\* All sequences over S of length at most n.
SeqsUpTo(S, n) == UNION {[1..k -> S] : k \in 0..n}

-----------------------------------------------------------------------------
(* URL canonicalisation *)

MaxUrlLen == 4
UrlChars == {"a", "/", "?", "L", "s"}
\* The URLs the canonicalisation is checked on start with an ordinary character.
Urls == {u \in SeqsUpTo(UrlChars, MaxUrlLen) : u # << >> /\ u[1] = "a"}

Endpoints == {"schedule", "match", "teams"}

\* str.split('?')[0]: the text before the first '?'.
RECURSIVE SplitQuery(_)
SplitQuery(u) ==
    IF u = << >> THEN << >>
    ELSE IF Head(u) = "?" THEN << >>
    ELSE <<Head(u)>> \o SplitQuery(Tail(u))

\* str.rstrip("/"): every trailing '/' removed.
RECURSIVE RStripSlash(_)
RStripSlash(u) ==
    IF u = << >> THEN << >>
    ELSE IF u[Len(u)] = "/" THEN RStripSlash(SubSeq(u, 1, Len(u) - 1))
    ELSE u

\* "live-cricket-score" in target_url
HasLiveSegment(u) == "L" \in Range(u)

\* /schedule and /teams: target_url = payload.url.split('?')[0]
CanonPlain(u) == SplitQuery(u)

\* /match: the live segment is appended when absent.
CanonMatch(u) ==
    LET t == SplitQuery(u)
    IN  IF ~HasLiveSegment(t) THEN RStripSlash(t) \o <<"/", "L">> ELSE t

TargetUrl(ep, u) == IF ep = "match" THEN CanonMatch(u) ELSE CanonPlain(u)

-----------------------------------------------------------------------------
(* Python dicts and truthiness *)

\* {}: a dict without keys.
EmptyDict == [k \in {} |-> None]

\* d.get(k) and d.get(k, dflt)
Get(d, k) == IF k \in DOMAIN d THEN d[k] ELSE None
GetD(d, k, dflt) == IF k \in DOMAIN d THEN d[k] ELSE dflt

\* bool(x) of an optional dict, list, string, flag.
TruthyDict(o) == o # None /\ DOMAIN o[1] # {}
TruthyList(o) == o # None /\ o[1] # << >>
TruthyStr(o) == o # None /\ o[1] # ""
TruthyFlag(o) == o = Some(TRUE)

\* The outcome of code that may raise.
Ok(v) == [ok |-> TRUE, val |-> v]
Raised(e) == [ok |-> FALSE, exc |-> e]

-----------------------------------------------------------------------------
(* format_innings: batting list and fielding aggregation *)

\* Dismissal type codes read by the fielding logic.
Caught == 1
Stumped == 5
RunOut == 4

\* A variant of the inclusion condition that reads runs and balls by their
\* truth value, so that a recorded 0 does not count.
BatsmanIncluded_ZeroIgnored(b) ==
    /\ TruthyDict(Get(b, "player"))
    /\ \/ (Get(b, "runs") # None /\ Get(b, "runs") # Some(0))
       \/ (Get(b, "balls") # None /\ Get(b, "balls") # Some(0))
       \/ TruthyFlag(Get(b, "isOut"))
       \/ TruthyFlag(Get(b, "isBatting"))

\* main.py:102, the condition under which a record of inningBatsmen is kept.
\* (A record that is None or {} has no player and fails it as well.)
BatsmanIncluded(b) ==
    /\ TruthyDict(Get(b, "player"))
    /\ \/ Get(b, "runs") # None
       \/ Get(b, "balls") # None
       \/ TruthyFlag(Get(b, "isOut"))
       \/ TruthyFlag(Get(b, "isBatting"))

\* main.py:104-112
BattingEntry(b) ==
    [id |-> GetD(Get(b, "player")[1], "slug", Some("unknown")),
     r |-> GetD(b, "runs", Some(0)),
     b |-> GetD(b, "balls", Some(0))]

HasStats(stats, slug) == \E i \in 1..Len(stats) : stats[i].id = slug

\* main.py:122-130: fielding_stats is a dict in insertion order, here the
\* sequence of its items.
Credit(stats, slug, d_type) ==
    LET s0 == IF HasStats(stats, slug) THEN stats
              ELSE Append(stats, [id |-> slug, c |-> 0, st |-> 0, ro |-> 0])
        bump(e) == IF d_type = Some(Caught) THEN [e EXCEPT !.c = @ + 1]
                   ELSE IF d_type = Some(Stumped) THEN [e EXCEPT !.st = @ + 1]
                   ELSE IF d_type = Some(RunOut) THEN [e EXCEPT !.ro = @ + 1]
                   ELSE e
    IN  [i \in 1..Len(s0) |-> IF s0[i].id = slug THEN bump(s0[i]) ELSE s0[i]]

\* A variant of the fielder loop that credits the first fielder only.
CreditFielders_FirstOnly(stats, fs, d_type) ==
    IF fs = << >> THEN stats
    ELSE LET player == Get(Head(fs), "player")
             f_slug == IF TruthyDict(player) THEN Get(player[1], "slug") ELSE None
         IN  IF TruthyDict(player) /\ TruthyStr(f_slug)
             THEN Credit(stats, f_slug[1], d_type)
             ELSE stats

\* main.py:118-130, the loop over one dismissal's fielders.
RECURSIVE CreditFielders(_, _, _)
CreditFielders(stats, fs, d_type) ==
    IF fs = << >> THEN stats
    ELSE LET f == Head(fs)
             player == Get(f, "player")
             f_slug == IF TruthyDict(player) THEN Get(player[1], "slug") ELSE None
             next == IF TruthyDict(player) /\ TruthyStr(f_slug)
                     THEN Credit(stats, f_slug[1], d_type)
                     ELSE stats
         IN  CreditFielders(next, Tail(fs), d_type)

\* main.py:101-130, the loop over inningBatsmen. Iterating a dismissalFielders
\* that is null raises TypeError, which format_innings does not catch.
RECURSIVE BatsmenLoop(_, _, _)
BatsmenLoop(bs, batting, stats) ==
    IF bs = << >> THEN Ok([batting |-> batting, fielding_stats |-> stats])
    ELSE LET b == Head(bs)
         IN  IF ~BatsmanIncluded(b) THEN BatsmenLoop(Tail(bs), batting, stats)
             ELSE IF ~TruthyFlag(Get(b, "isOut"))
                  THEN BatsmenLoop(Tail(bs), Append(batting, BattingEntry(b)), stats)
             ELSE LET fielders == GetD(b, "dismissalFielders", Some(<< >>))
                  IN  IF fielders = None THEN Raised("TypeError")
                      ELSE BatsmenLoop(Tail(bs), Append(batting, BattingEntry(b)),
                                       CreditFielders(stats, fielders[1],
                                                      Get(b, "dismissalType")))

\* main.py:92-182. innings_list is a list whose elements are optional dicts;
\* index counts from 0. The result is Ok(None) for Python's None, Ok(Some(r))
\* for a structure, Raised(..) for an exception. The inputs of this model carry
\* no inningBowlers, inningPartnerships, inningWickets or extras keys, so those
\* comprehensions yield their empty or default values.
FormatInnings(innings_list, index) ==
    IF innings_list = << >> \/ Len(innings_list) <= index THEN Ok(None)
    ELSE LET e == innings_list[index + 1]
             inn == IF TruthyDict(e) THEN e[1] ELSE EmptyDict
             batsmen == Get(inn, "inningBatsmen")
             loop == BatsmenLoop(IF TruthyList(batsmen) THEN batsmen[1] ELSE << >>,
                                 << >>, << >>)
             team == Get(inn, "team")
         IN  IF ~loop.ok THEN loop
             ELSE Ok(Some(
                 [team |-> GetD(IF TruthyDict(team) THEN team[1] ELSE EmptyDict,
                                "abbreviation", Some("UNK")),
                  total |-> <<GetD(inn, "runs", Some(0)), GetD(inn, "wickets", Some(0))>>,
                  overs |-> GetD(inn, "overs", Some(0)),
                  batting |-> loop.val.batting,
                  bowling |-> << >>,
                  fielding |-> loop.val.fielding_stats,
                  partnerships |-> << >>,
                  fow |-> << >>,
                  extras |-> [b |-> 0, lb |-> 0, wd |-> 0, nb |-> 0, tot |-> 0]]))

-----------------------------------------------------------------------------
(* Path resolution and the /match mapping *)

VERSION == "Cricko v0.8"

\* str.lower() on the state texts of this model.
Lower(t) == IF t = "POST" THEN "post" ELSE IF t = "LIVE" THEN "live"
            ELSE IF t = "PRE" THEN "pre" ELSE t

\* x.get(k, dflt) on the outcome r of the code before it: AttributeError when
\* x is None.
AttrGet(r, k, dflt) ==
    IF ~r.ok THEN r
    ELSE IF r.val = None THEN Raised("AttributeError")
    ELSE Ok(GetD(r.val[1], k, dflt))

\* main.py:284 (and 214, 357):
\* raw_json.get('props', {}).get('appPageProps') or raw_json.get('props', {}).get('pageProps', {})
AppProps(raw_json) ==
    LET first == AttrGet(AttrGet(Ok(Some(raw_json)), "props", Some(EmptyDict)),
                         "appPageProps", None)
    IN  IF ~first.ok THEN first
        ELSE IF TruthyDict(first.val) THEN first
        ELSE AttrGet(AttrGet(Ok(Some(raw_json)), "props", Some(EmptyDict)),
                     "pageProps", Some(EmptyDict))

\* The first index of s whose element satisfies P, or 0.
FirstIndex(s, P(_)) ==
    IF \E i \in 1..Len(s) : P(s[i])
    THEN CHOOSE i \in 1..Len(s) : P(s[i]) /\ \A j \in 1..(i - 1) : ~P(s[j])
    ELSE 0

IsHome(t) == TruthyFlag(Get(t, "isHome"))
NotHome(t) == ~IsHome(t)

\* main.py:292
MatchHome(teams_list) ==
    LET i == FirstIndex(teams_list, IsHome)
    IN  IF i # 0 THEN teams_list[i]
        ELSE IF teams_list # << >> THEN teams_list[1] ELSE EmptyDict

\* main.py:293
MatchAway(teams_list) ==
    LET i == FirstIndex(teams_list, NotHome)
    IN  IF i # 0 THEN teams_list[i]
        ELSE IF Len(teams_list) > 1 THEN teams_list[2] ELSE EmptyDict

\* t.get('team', {}).get(k), as main.py:302 reads abbreviation and longName.
TeamField(t, k) == AttrGet(Ok(GetD(t, "team", Some(EmptyDict))), k, None)

\* {"abbr": .., "name": ..} of main.py:302
TeamMeta(t) ==
    LET abbr == TeamField(t, "abbreviation")
        name == TeamField(t, "longName")
    IN  IF ~abbr.ok THEN abbr ELSE Ok([abbr |-> abbr.val, name |-> name.val])

IsCurrent(e) == e # None /\ TruthyFlag(Get(e[1], "isCurrent"))

\* main.py:307: next((inn for inn in innings_list if inn.get('isCurrent')), {}).
\* The generator stops at the first current innings; a None element met before
\* it raises AttributeError, a null innings_list raises TypeError.
LiveInn(innings_list) ==
    IF innings_list = None THEN Raised("TypeError")
    ELSE LET l == innings_list[1]
             i == FirstIndex(l, IsCurrent)
             upto == IF i = 0 THEN Len(l) ELSE i
         IN  IF \E j \in 1..upto : l[j] = None THEN Raised("AttributeError")
             ELSE IF i = 0 THEN Ok(EmptyDict) ELSE Ok(l[i][1])

\* main.py:308-334, the live section for a truthy live_obj and live_inn. The
\* bowler lookup of line 310 reads every element of innings_list; line 319
\* reads live_inn.get('team', {}).get('abbreviation'). The inputs of this model
\* carry no partnership, commentary, batsmen or bowlers keys.
LiveSection(innings_list, live_inn) ==
    LET team == AttrGet(Ok(GetD(live_inn, "team", Some(EmptyDict))), "abbreviation", None)
    IN  IF \E j \in 1..Len(innings_list[1]) : innings_list[1][j] = None
        THEN Raised("AttributeError")
        ELSE IF ~team.ok THEN team
        ELSE Ok([team |-> team.val,
                 score |-> <<GetD(live_inn, "runs", Some(0)), GetD(live_inn, "wickets", Some(0))>>,
                 overs |-> GetD(live_inn, "overs", Some(0)),
                 target |-> Get(live_inn, "target"),
                 pship |-> None,
                 recent |-> << >>, batting |-> << >>, bowling |-> << >>])

\* content.get('innings') or []
InningsOrEmpty(content) ==
    LET i == Get(content, "innings") IN IF TruthyList(i) THEN i[1] ELSE << >>

\* main.py:284-336, the body of scrape_match's try block up to the response:
\* Ok(response) or the exception that reaches line 339. Of result_data the
\* model keeps state, meta.teams, post.innings_1, post.innings_2 and live.
MatchBody(raw_json) ==
    LET app_props == AppProps(raw_json)
        data_wrapper == AttrGet(AttrGet(app_props, "data", Some(EmptyDict)),
                                "data", Some(EmptyDict))
        content == AttrGet(data_wrapper, "content", Some(EmptyDict))
        match_obj == AttrGet(data_wrapper, "match", Some(EmptyDict))
        live_obj == AttrGet(content, "livePerformance", Some(EmptyDict))
        innings_list == AttrGet(content, "innings", Some(<< >>))
    IN  IF ~match_obj.ok THEN match_obj
        ELSE IF ~live_obj.ok THEN live_obj
        ELSE
        LET state == Get(match_obj.val[1], "state")
            m_state == Lower(IF TruthyStr(state) THEN state[1] ELSE "pre")
            teams == Get(match_obj.val[1], "teams")
            teams_list == IF TruthyList(teams) THEN teams[1] ELSE << >>
            home == TeamMeta(MatchHome(teams_list))
            away == TeamMeta(MatchAway(teams_list))
            innings_1 == FormatInnings(InningsOrEmpty(content.val[1]), 0)
            innings_2 == FormatInnings(InningsOrEmpty(content.val[1]), 1)
            live_inn == LiveInn(innings_list.val)
            has_live == TruthyDict(live_obj.val) /\ live_inn.ok /\ DOMAIN live_inn.val # {}
            live == IF has_live THEN LiveSection(innings_list.val, live_inn.val)
                    ELSE Ok(EmptyDict)
            result_data ==
                [state |-> m_state,
                 meta |-> [teams |-> [home |-> home.val, away |-> away.val]],
                 post |-> [innings_1 |-> innings_1.val, innings_2 |-> innings_2.val]]
        IN  IF ~home.ok THEN home
            ELSE IF ~away.ok THEN away
            ELSE IF ~innings_1.ok THEN innings_1
            ELSE IF ~innings_2.ok THEN innings_2
            ELSE IF ~live_inn.ok THEN live_inn
            ELSE IF ~live.ok THEN live
            ELSE Ok([version |-> VERSION,
                     data |-> IF has_live
                              THEN [k \in DOMAIN result_data \cup {"live"} |->
                                       IF k = "live" THEN live.val ELSE result_data[k]]
                              ELSE result_data])

\* main.py:339-341 (and 269-271): what the handler returns when its try block raised.
ErrorResponse(e) == [version |-> VERSION, data |-> EmptyDict, error |-> e]

\* What a handler returns when its try block ended as r: the response, or
\* the error response of its except clause.
Returned(r) == IF r.ok THEN r.val ELSE ErrorResponse(r.exc)

\* main.py:283-341
MatchResponse(raw_json) == Returned(MatchBody(raw_json))

-----------------------------------------------------------------------------
(* The /schedule mapping *)

(* Text is a sequence of symbols. In a series slug or prefix "-" is itself   *)
(* and every other symbol is a piece of text without "-" ("men", "s",        *)
(* "women" are those texts; "ipl", "2024", "t20" stand for any other).       *)

\* str.split(sep): the parts of s between the occurrences of sep.
RECURSIVE SplitOn(_, _)
SplitOn(s, sep) ==
    IF \A i \in 1..Len(s) : s[i] # sep THEN <<s>>
    ELSE LET i == CHOOSE i \in 1..Len(s) : s[i] = sep /\ \A j \in 1..(i - 1) : s[j] # sep
         IN  <<SubSeq(s, 1, i - 1)>> \o SplitOn(SubSeq(s, i + 1, Len(s)), sep)

\* sep.join(parts)
RECURSIVE JoinWith(_, _)
JoinWith(parts, sep) ==
    IF parts = << >> THEN << >>
    ELSE IF Len(parts) = 1 THEN parts[1]
    ELSE parts[1] \o <<sep>> \o JoinWith(Tail(parts), sep)

\* main.py:222, the slug parts that are dropped.
IsGenderToken(part) == part \in {<<"men">>, <<"s">>, <<"women">>}
NotGenderToken(part) == ~IsGenderToken(part)

\* main.py:222-223
PrefixFromSlug(series_slug) ==
    LET slug_parts == SelectSeq(SplitOn(series_slug, "-"), NotGenderToken)
    IN  JoinWith(SubSeq(slug_parts, 1, IF Len(slug_parts) < 3 THEN Len(slug_parts) ELSE 3), "-")

DigitChars == <<"0", "1", "2", "3", "4", "5", "6", "7", "8", "9">>

\* str(n) for n >= 0
RECURSIVE Str(_)
Str(n) == IF n < 10 THEN <<DigitChars[n + 1]>> ELSE Str(n \div 10) \o <<DigitChars[(n % 10) + 1]>>

\* str.zfill(width)
RECURSIVE ZFill(_, _)
ZFill(t, width) == IF Len(t) >= width THEN t ELSE ZFill(<<"0">> \o t, width)

\* A variant of the identifier whose number is not padded.
MatchId_Unpadded(series_prefix, idx) ==
    IF series_prefix # << >> THEN series_prefix \o <<"-">> \o Str(idx) ELSE Str(idx)

\* main.py:236
MatchId(series_prefix, idx) ==
    IF series_prefix # << >> THEN series_prefix \o <<"-">> \o ZFill(Str(idx), 3)
    ELSE ZFill(Str(idx), 3)

\* main.py:238-239
SchedHome(teams) ==
    LET t1 == IF Len(teams) > 0 THEN teams[1] ELSE EmptyDict
        t2 == IF Len(teams) > 1 THEN teams[2] ELSE EmptyDict
    IN  IF IsHome(t1) THEN t1 ELSE IF IsHome(t2) THEN t2 ELSE t1

\* main.py:240
SchedAway(teams) ==
    LET t1 == IF Len(teams) > 0 THEN teams[1] ELSE EmptyDict
        t2 == IF Len(teams) > 1 THEN teams[2] ELSE EmptyDict
    IN  IF SchedHome(teams) = t1 THEN t2 ELSE t1

\* main.py:251-252: (t.get('team') or {}).get(..) with the defaults '' and 'TBC'
SchedTeam(t) ==
    LET tm == Get(t, "team")
        d == IF TruthyDict(tm) THEN tm[1] ELSE EmptyDict
    IN  [abbr |-> GetD(d, "abbreviation", Some("")), name |-> GetD(d, "longName", Some("TBC"))]

\* main.py:263: the abbreviation of the first team whose id equals winnerTeamId
\* (both compared through str(), so a missing id equals a missing
\* winnerTeamId). t.get("team", {}) of a null team raises AttributeError,
\* t["team"]["abbreviation"] of a team without that key raises KeyError.
RECURSIVE WinLookup(_, _)
WinLookup(teams, winner) ==
    IF teams = << >> THEN Ok(None)
    ELSE LET t == Head(teams)
             tm == GetD(t, "team", Some(EmptyDict))
         IN  IF tm = None THEN Raised("AttributeError")
             ELSE IF Get(tm[1], "id") = winner
                  THEN IF "team" \in DOMAIN t /\ "abbreviation" \in DOMAIN tm[1]
                       THEN Ok(tm[1].abbreviation)
                       ELSE Raised("KeyError")
             ELSE WinLookup(Tail(teams), winner)

\* main.py:258: the first whitespace-separated token of the text, up to "/".
\* The score texts of this model hold no whitespace.
ParseOvers(s) == IF ~TruthyList(s) THEN <<"2", "0">> ELSE SplitOn(s[1], "/")[1]

\* main.py:257-264, the result block of a completed match.
ResultBlock(match, home, away) ==
    LET win == WinLookup(GetD(match, "teams", Some(<< >>))[1], Get(match, "winnerTeamId"))
    IN  IF GetD(match, "teams", Some(<< >>)) = None THEN Raised("TypeError")
        ELSE IF ~win.ok THEN win
        ELSE Ok([away |-> [overs |-> ParseOvers(Get(away, "scoreInfo")),
                           total |-> GetD(away, "score", Some(<<"0", "/", "0">>))],
                 home |-> [overs |-> ParseOvers(Get(home, "scoreInfo")),
                           total |-> GetD(home, "score", Some(<<"0", "/", "0">>))],
                 result |-> GetD(match, "statusText", Some(<< >>)),
                 win |-> win.val])

\* main.py:236-264, one pass of the loop: Ok([mid, entry]) or the exception.
\* Of the entry the model keeps num, state, teams and result.
ScheduleEntry(series_prefix, idx, match) ==
    LET teams == IF TruthyList(Get(match, "teams")) THEN Get(match, "teams")[1] ELSE << >>
        home == SchedHome(teams)
        away == SchedAway(teams)
        state == Get(match, "state")
        status == Lower(IF TruthyStr(state) THEN state[1] ELSE "")
        entry == [num |-> idx, state |-> status,
                  teams |-> [away |-> SchedTeam(away), home |-> SchedTeam(home)]]
        result == ResultBlock(match, home, away)
    IN  IF status # "post" THEN Ok([mid |-> MatchId(series_prefix, idx), entry |-> entry])
        ELSE IF ~result.ok THEN result
        ELSE Ok([mid |-> MatchId(series_prefix, idx),
                 entry |-> [k \in DOMAIN entry \cup {"result"} |->
                               IF k = "result" THEN result.val ELSE entry[k]]])

\* formatted_schedule["data"][mid] = entry: data is a dict in insertion order,
\* here the sequence of its items; an existing key keeps its place.
DictSet(data, item) ==
    IF \E i \in 1..Len(data) : data[i].mid = item.mid
    THEN [i \in 1..Len(data) |-> IF data[i].mid = item.mid THEN item ELSE data[i]]
    ELSE Append(data, item)

\* The dict built by the loop, as a value: a record holding its items in
\* insertion order (a record, so that it compares with any other response data).
Dict(items) == [items |-> items]

\* main.py:235-265
RECURSIVE ScheduleLoop(_, _, _, _)
ScheduleLoop(series_prefix, idx, matches, data) ==
    IF matches = << >> THEN Ok(data)
    ELSE LET e == ScheduleEntry(series_prefix, idx, Head(matches))
         IN  IF ~e.ok THEN e
             ELSE ScheduleLoop(series_prefix, idx + 1, Tail(matches), DictSet(data, e.val))

\* x.get('matches', []) of the outcome r of the code before it
MatchesAt(r) == AttrGet(r, "matches", Some(<< >>))

\* main.py:225-231: the first non-empty candidate of the four places.
MatchesList(app_props, data_content) ==
    LET c1 == MatchesAt(data_content)
        c2 == MatchesAt(AttrGet(data_content, "seriesMatches", Some(EmptyDict)))
        c3 == MatchesAt(AttrGet(AttrGet(app_props, "initialState", Some(EmptyDict)),
                                "content", Some(EmptyDict)))
        containers == AttrGet(AttrGet(data_content, "schedule", Some(EmptyDict)),
                              "containers", Some(<< >>))
    IN  IF ~c1.ok THEN c1 ELSE IF TruthyList(c1.val) THEN c1
        ELSE IF ~c2.ok THEN c2 ELSE IF TruthyList(c2.val) THEN c2
        ELSE IF ~c3.ok THEN c3 ELSE IF TruthyList(c3.val) THEN c3
        ELSE IF ~containers.ok THEN containers
        ELSE IF TruthyList(containers.val)
             THEN MatchesAt(Ok(Some(containers.val[1][1])))
             ELSE c3

\* main.py:214-268, the body of scrape_schedule's try block up to the response.
ScheduleBody(raw_json, payload_prefix) ==
    LET app_props == AppProps(raw_json)
        data == AttrGet(app_props, "data", Some(EmptyDict))
        data_content == AttrGet(data, "content", Some(EmptyDict))
        series_slug == AttrGet(AttrGet(data, "series", Some(EmptyDict)), "slug", Some(<< >>))
        matches_list == MatchesList(app_props, data_content)
    IN  IF ~data_content.ok THEN data_content
        ELSE IF payload_prefix = << >> /\ ~series_slug.ok THEN series_slug
        ELSE IF ~matches_list.ok THEN matches_list
        ELSE IF matches_list.val = None THEN Raised("TypeError")
        ELSE
        LET series_prefix ==
                IF payload_prefix # << >> THEN payload_prefix
                ELSE IF TruthyList(series_slug.val) THEN PrefixFromSlug(series_slug.val[1])
                ELSE << >>
            loop == ScheduleLoop(series_prefix, 1, matches_list.val[1], << >>)
        IN  IF ~loop.ok THEN loop
            ELSE Ok([version |-> VERSION, data |-> Dict(loop.val)])

\* main.py:213-271
ScheduleResponse(raw_json, payload_prefix) == Returned(ScheduleBody(raw_json, payload_prefix))

-----------------------------------------------------------------------------
(* Upstream payloads the checks draw from *)

\* d with key k set to v.
WithKey(d, k, v) == [x \in DOMAIN d \cup {k} |-> IF x = k THEN v ELSE d[x]]

TeamNames == <<"A", "B", "C", "D">>
TeamInfo(i) == [id |-> Some(i), abbreviation |-> Some(TeamNames[i]),
                longName |-> Some(TeamNames[i])]
TeamEntry(i, h) == [isHome |-> Some(h), team |-> Some(TeamInfo(i))]

MaxTeams == 2
TeamLists ==
    UNION {{[i \in 1..k |-> TeamEntry(i, f[i])] : f \in [1..k -> BOOLEAN]} : k \in 0..MaxTeams}

PlayerDict(slug) == [slug |-> Some(slug)]
Fielder(slug) == [player |-> Some(PlayerDict(slug))]
OutBatsman(slug, d_type, fielders) ==
    [player |-> Some(PlayerDict(slug)), runs |-> Some(0), balls |-> Some(1),
     isOut |-> Some(TRUE), dismissalType |-> Some(d_type), dismissalFielders |-> fielders]

InnPlayed ==
    [team |-> Some([abbreviation |-> Some("A")]), runs |-> Some(10), wickets |-> Some(1),
     overs |-> Some(2),
     inningBatsmen |-> Some(<<OutBatsman("p1", Caught, Some(<<Fielder("f1")>>))>>)]
InnCurrent == WithKey(InnPlayed, "isCurrent", Some(TRUE))
InnCurrentNullTeam == WithKey(InnCurrent, "team", None)
InnNullFielders ==
    WithKey(InnPlayed, "inningBatsmen", Some(<<OutBatsman("p1", Caught, None)>>))

\* An element of content.innings: null, {}, or an innings with data.
InningsVals == {None, Some(EmptyDict), Some(InnPlayed), Some(InnCurrent),
                Some(InnCurrentNullTeam), Some(InnNullFielders)}
MaxInnings == 2
InningsLists == SeqsUpTo(InningsVals, MaxInnings)

\* The page JSON of a match: match_obj and content under
\* props.<via>.data.data, via being appPageProps or pageProps.
RawMatchJson(via, teams, innings, live) ==
    LET content == IF live THEN [innings |-> innings,
                                 livePerformance |-> Some([batsmen |-> Some(<< >>)])]
                   ELSE [innings |-> innings]
        match_obj == [state |-> Some("LIVE"), teams |-> Some(teams)]
        wrapper == [data |-> Some([data |-> Some([content |-> Some(content),
                                                    match |-> Some(match_obj)])])]
    IN  [props |-> Some([k \in {via} |-> Some(wrapper)])]

MatchArgs ==
    {[kind |-> "match", via |-> "appPageProps", teams |-> t, innings |-> i, live |-> l] :
        t \in TeamLists, i \in {None} \cup {Some(x) : x \in InningsLists}, l \in BOOLEAN}
    \cup
    {[kind |-> "match", via |-> "pageProps", teams |-> t, innings |-> Some(<<Some(InnCurrent)>>),
      live |-> TRUE] : t \in TeamLists}

\* One match of a schedule page with two teams: its state, the isHome flags,
\* the winner id and whether team 1 carries an abbreviation.
SchedMatch(state, h1, h2, winner, abbr1) ==
    LET info1 == IF abbr1 THEN TeamInfo(1) ELSE [id |-> Some(1), longName |-> Some("A")]
    IN  [state |-> Some(state),
         teams |-> Some(<<[isHome |-> Some(h1), team |-> Some(info1)], TeamEntry(2, h2)>>),
         winnerTeamId |-> winner]
SchedMatches ==
    {SchedMatch(st, h1, h2, w, a) : st \in {"pre", "POST"}, h1 \in BOOLEAN, h2 \in BOOLEAN,
                                     w \in {None, Some(1)}, a \in BOOLEAN}
MaxMatches == 2
MatchLists == SeqsUpTo(SchedMatches, MaxMatches)

SchedLocs == {"matches", "seriesMatches", "initialState", "containers"}

\* The page JSON of a schedule: the matches list at one of the four places, and
\* the series slug (None when the page has none).
RawScheduleJson(loc, matches, slug) ==
    LET content == IF loc = "matches" THEN [matches |-> Some(matches)]
                   ELSE IF loc = "seriesMatches"
                        THEN [seriesMatches |-> Some([matches |-> Some(matches)])]
                   ELSE IF loc = "containers"
                        THEN [schedule |-> Some([containers |-> Some(<<[matches |-> Some(matches)]>>)])]
                   ELSE EmptyDict
        series == IF slug = None THEN EmptyDict ELSE [slug |-> slug]
        data == [content |-> Some(content), series |-> Some(series)]
        app == IF loc = "initialState"
               THEN [data |-> Some(data),
                     initialState |-> Some([content |-> Some([matches |-> Some(matches)])])]
               ELSE [data |-> Some(data)]
    IN  [props |-> Some([appPageProps |-> Some(app)])]

SeriesSlug == <<"ipl", "-", "men", "-", "s", "-", "2024", "-", "t20", "-", "x">>
PrefixChoices == {[prefix |-> << >>, slug |-> None],
                  [prefix |-> <<"x">>, slug |-> Some(SeriesSlug)],
                  [prefix |-> << >>, slug |-> Some(SeriesSlug)]}

\* A slug of gender tokens only, a slug with one other segment, and a
\* schedule of twelve matches.
GenderOnlySlug == <<"men", "-", "s">>
ShortSlug == <<"ipl", "-", "women">>
TwelveMatches == [i \in 1..12 |-> SchedMatch("pre", TRUE, FALSE, None, TRUE)]
LongPrefixChoices == PrefixChoices \cup {[prefix |-> << >>, slug |-> Some(GenderOnlySlug)],
                                         [prefix |-> << >>, slug |-> Some(ShortSlug)]}

ScheduleArgs ==
    {[kind |-> "schedule", loc |-> "matches", matches |-> m, prefix |-> c.prefix, slug |-> c.slug] :
        m \in MatchLists, c \in PrefixChoices}
    \cup
    {[kind |-> "schedule", loc |-> "matches", matches |-> TwelveMatches, prefix |-> c.prefix,
      slug |-> c.slug] : c \in LongPrefixChoices}
    \cup
    {[kind |-> "schedule", loc |-> l, matches |-> <<m>>, prefix |-> << >>, slug |-> None] :
        l \in SchedLocs, m \in SchedMatches}

-----------------------------------------------------------------------------
(* The /teams mapping *)

\* main.py:39-85, the entry of the table that the team names of this model meet.
TEAM_META == [India |-> [abbr |-> "IND", color |-> "#004ba0"]]

\* official_name[:3].upper() for the team names of this model.
Upper3(name) == IF name = "Mars XI" THEN "MAR" ELSE IF name = "Unknown Team" THEN "UNK" ELSE "IND"

\* main.py:401-410. No name of this model is a substring of a table key or
\* contains one, so the scan of lines 403-406 finds nothing.
MetaFor(official_name) ==
    IF official_name \in DOMAIN TEAM_META THEN TEAM_META[official_name]
    ELSE [abbr |-> Upper3(official_name), color |-> "#888888"]

\* The index at which the text /series/ starts in the URL, or 0.
SeriesAt(u) ==
    LET hits == {i \in 1..(Len(u) - 2) : u[i] = "/" /\ u[i + 1] = "s" /\ u[i + 2] = "/"}
    IN  IF hits = {} THEN 0 ELSE CHOOSE i \in hits : \A j \in hits : i <= j

\* main.py:362: target_url.split('/series/')[1].split('/')[0]
SeriesId(target_url) ==
    IF SeriesAt(target_url) = 0 THEN Raised("IndexError")
    ELSE Ok(SplitOn(SubSeq(target_url, SeriesAt(target_url) + 3, Len(target_url)), "/")[1])

\* main.py:392-399, the members of one squad page: the players that carry a
\* slug, and the slug of the last one marked captain.
RECURSIVE MembersLoop(_, _, _)
MembersLoop(members, players, captain_slug) ==
    IF members = << >> THEN [players |-> players, cpt |-> captain_slug]
    ELSE LET m == Head(members)
             p_info == IF "player" \in DOMAIN m THEN m.player[1] ELSE m
             slug == Get(p_info, "slug")
         IN  IF ~TruthyStr(slug) THEN MembersLoop(Tail(members), players, captain_slug)
             ELSE MembersLoop(Tail(members),
                              Append(players, [name |-> Get(p_info, "longName"), slug |-> slug[1]]),
                              IF TruthyFlag(Get(m, "isCaptain")) THEN slug[1] ELSE captain_slug)

\* main.py:383-419, the entry built from the page of one team.
FormattedTeam(item_squad, placeholder, team_json) ==
    LET props == GetD(team_json, "props", Some(EmptyDict))[1]
        t_props == GetD(props, "appPageProps", GetD(props, "pageProps", Some(EmptyDict)))[1]
        t_content == GetD(GetD(t_props, "data", Some(EmptyDict))[1], "content", Some(EmptyDict))[1]
        squad_details == GetD(t_content, "squadDetails", Some(EmptyDict))[1]
        team_name == Get(GetD(squad_details, "team", Some(EmptyDict))[1], "name")
        official_name == IF TruthyStr(team_name) THEN team_name[1] ELSE placeholder
        members == Get(squad_details, "players")
        loop == MembersLoop(IF TruthyList(members) THEN members[1] ELSE << >>, << >>, "")
    IN  [ci |-> <<item_squad.slug[1], item_squad.objectId[1]>>,
         name |-> official_name,
         abbr |-> MetaFor(official_name).abbr,
         color |-> MetaFor(official_name).color,
         cpt |-> loop.cpt,
         squad |-> loop.players]

\* The squads of the list that are deep-scraped (main.py:375-377 skips the others).
HasSlugAndId(item) ==
    LET team_info == GetD(item, "squad", Some(EmptyDict))[1]
    IN  TruthyStr(Get(team_info, "slug")) /\ Get(team_info, "objectId") # None

\* main.py:369-423: the loop over squads_list. team_jsons holds, for every
\* squad that is fetched, what fetch_json returned for its page, in order.
RECURSIVE TeamsLoop(_, _, _)
TeamsLoop(squads_list, team_jsons, formatted_teams) ==
    IF squads_list = << >> THEN formatted_teams
    ELSE LET item == Head(squads_list)
             team_info == GetD(item, "squad", Some(EmptyDict))[1]
             name == Get(team_info, "name")
             placeholder == IF TruthyStr(name) THEN name[1] ELSE "Unknown Team"
         IN  IF ~HasSlugAndId(item) THEN TeamsLoop(Tail(squads_list), team_jsons, formatted_teams)
             ELSE IF TruthyDict(Head(team_jsons))
                  THEN TeamsLoop(Tail(squads_list), Tail(team_jsons),
                                 Append(formatted_teams,
                                        FormattedTeam(team_info, placeholder, Head(team_jsons)[1])))
             ELSE TeamsLoop(Tail(squads_list), Tail(team_jsons), formatted_teams)

\* main.py:357-359
SquadsList(raw_json) ==
    LET app_props == AppProps(raw_json)
        first == AttrGet(AttrGet(AttrGet(app_props, "data", Some(EmptyDict)),
                                 "content", Some(EmptyDict)), "squads", None)
        second == AttrGet(AttrGet(AttrGet(app_props, "initialState", Some(EmptyDict)),
                                  "content", Some(EmptyDict)), "squads", Some(<< >>))
    IN  IF ~first.ok THEN first ELSE IF TruthyList(first.val) THEN first ELSE second

\* How many team pages the handler fetches for this page.
TeamFetches(raw_json) ==
    LET squads_list == SquadsList(raw_json)
    IN  IF ~squads_list.ok \/ squads_list.val = None THEN 0
        ELSE Len(SelectSeq(squads_list.val[1], HasSlugAndId))

\* A list as response data: a record holding it.
List(xs) == [list |-> xs]

\* main.py:428-430
TeamsErrorResponse(e) == [version |-> VERSION, data |-> List(<< >>), error |-> e]

\* main.py:356-430: the response of scrape_teams after the page was fetched,
\* and whether it is the one that line 426 stores.
TeamsResult(raw_json, target_url, team_jsons) ==
    LET squads_list == SquadsList(raw_json)
        series_id == SeriesId(target_url)
    IN  IF ~squads_list.ok
        THEN [stores |-> FALSE, response |-> TeamsErrorResponse(squads_list.exc)]
        ELSE IF ~series_id.ok
        THEN [stores |-> FALSE,
              response |-> [version |-> VERSION, teams |-> << >>,
                            error |-> "Invalid series URL structure"]]
        ELSE IF squads_list.val = None
        THEN [stores |-> FALSE, response |-> TeamsErrorResponse("TypeError")]
        ELSE [stores |-> TRUE,
              response |-> [version |-> VERSION,
                            data |-> List(TeamsLoop(squads_list.val[1], team_jsons, << >>))]]

\* The page JSON of a series' squads and of one team's squad.
SquadItem(slug, id, name) ==
    [squad |-> Some([slug |-> Some(slug), objectId |-> Some(id), name |-> Some(name)])]
RawTeamsJson(squads) ==
    [props |-> Some([appPageProps |-> Some([data |-> Some([content |-> Some(
        [squads |-> Some(squads)])])])])]
RawTeamJson(name, members) ==
    [props |-> Some([appPageProps |-> Some([data |-> Some([content |-> Some(
        [squadDetails |-> Some([team |-> Some([name |-> Some(name)]),
                                players |-> Some(members)])])])])])]

-----------------------------------------------------------------------------
(* fetch_json and the pages of the upstream site *)

\* What the upstream answers to one GET: a network error, or a status and an
\* HTML body, which may hold the __NEXT_DATA__ script tag (whose text parses to
\* json, or does not parse) and may hold the bot-block marker phrase.
NetError == [net |-> "error"]
Page(status, tag, marker, parses, json) ==
    [net |-> "ok", status |-> status, tag |-> tag, marker |-> marker,
     parses |-> parses, json |-> json]

\* main.py:184-198: the parsed JSON, or None after any failure.
FetchJson(page) ==
    IF page.net = "error" THEN None
    ELSE IF page.status # 200 THEN None
    ELSE IF ~page.tag THEN None
    ELSE IF ~page.parses THEN None
    ELSE Some(page.json)

-----------------------------------------------------------------------------
(* The state of the server before any request *)

NoRequest == [ep |-> "none"]

ServerInit ==
    /\ now = 0
    /\ CACHE = EmptyDict
    /\ pending = << >>
    /\ served = 0
    /\ last = NoRequest
    /\ stored = EmptyDict

-----------------------------------------------------------------------------
(* The mappings applied to every payload: specification SpecMap *)

InitMap ==
    /\ ServerInit
    /\ pc = "in"
    /\ arg \in MatchArgs \cup ScheduleArgs
    /\ ret = EmptyDict

CallMatch ==
    /\ pc = "in"
    /\ arg.kind = "match"
    /\ ret' = MatchResponse(RawMatchJson(arg.via, arg.teams, arg.innings, arg.live))
    /\ pc' = "out"
    /\ UNCHANGED <<arg, serverVars>>

CallSchedule ==
    /\ pc = "in"
    /\ arg.kind = "schedule"
    /\ ret' = ScheduleResponse(RawScheduleJson(arg.loc, arg.matches, arg.slug), arg.prefix)
    /\ pc' = "out"
    /\ UNCHANGED <<arg, serverVars>>

NextMap == CallMatch \/ CallSchedule

SpecMap == InitMap /\ [][NextMap]_vars

IsSuccess(response) == "error" \notin DOMAIN response

\* The long name of the i-th listed team.
ListedName(teams, i) == Get(teams[i].team[1], "longName")

\* The listed team the home slot is due to: the one flagged isHome when exactly
\* one is, the first otherwise.
DueHome(teams) == IF IsHome(teams[2]) /\ ~IsHome(teams[1]) THEN 2 ELSE 1
DueAway(teams) == 3 - DueHome(teams)

HomeAwayAsDue(teams, slots) ==
    /\ slots.home.name = ListedName(teams, DueHome(teams))
    /\ slots.away.name = ListedName(teams, DueAway(teams))
    /\ slots.home.name # slots.away.name

\* C7: for a match with two listed teams, the team flagged isHome takes the
\* home slot and the other the away slot; with neither or both flagged the
\* first listed team is home and the second away; home and away are the two
\* different listed teams, in the /match mapping and in the /schedule mapping.
C7_HomeAwayResolved ==
    (pc = "out" /\ IsSuccess(ret)) =>
        /\ (arg.kind = "match" /\ Len(arg.teams) = 2) =>
               HomeAwayAsDue(arg.teams, ret.data.meta.teams)
        /\ arg.kind = "schedule" =>
               \A i \in 1..Len(ret.data.items) :
                   HomeAwayAsDue(arg.matches[i].teams[1], ret.data.items[i].entry.teams)

\* The /schedule half of C7 alone, which the code satisfies.
C7_ScheduleHomeAway ==
    (pc = "out" /\ IsSuccess(ret) /\ arg.kind = "schedule") =>
        \A i \in 1..Len(ret.data.items) :
            HomeAwayAsDue(arg.matches[i].teams[1], ret.data.items[i].entry.teams)

\* The source holds no innings data at position k (counted from 1).
NoInningsAt(innings, k) ==
    \/ innings = None
    \/ Len(innings[1]) < k
    \/ innings[1][k] = None
    \/ innings[1][k] = Some(EmptyDict)

\* C10: post.innings_k is null whenever the source holds no innings data at
\* position k (the list is shorter than k, or its k-th element is null or
\* empty); an innings is never reported as an empty structure.
C10_AbsentInningsIsNull ==
    (pc = "out" /\ arg.kind = "match" /\ IsSuccess(ret)) =>
        /\ NoInningsAt(arg.innings, 1) => ret.data.post.innings_1 = None
        /\ NoInningsAt(arg.innings, 2) => ret.data.post.innings_2 = None

\* The part of C10 the code satisfies: a list shorter than k gives null.
C10_ShortListIsNull ==
    (pc = "out" /\ arg.kind = "match" /\ IsSuccess(ret)) =>
        \A k \in {1, 2} :
            (arg.innings = None \/ Len(arg.innings[1]) < k) =>
                (IF k = 1 THEN ret.data.post.innings_1 ELSE ret.data.post.innings_2) = None

\* An optional section of the payload fails: the fielding aggregation of an
\* innings, the live-state projection of a match, or the result block of a
\* completed schedule entry.
FieldingFails(a) ==
    /\ a.kind = "match"
    /\ a.innings # None
    /\ \E k \in 1..2 : k <= Len(a.innings[1]) /\ a.innings[1][k] = Some(InnNullFielders)
LiveFails(a) ==
    /\ a.kind = "match"
    /\ \/ ~LiveInn(a.innings).ok
       \/ /\ a.live
          /\ DOMAIN LiveInn(a.innings).val # {}
          /\ ~LiveSection(a.innings, LiveInn(a.innings).val).ok
ResultFails(a) ==
    /\ a.kind = "schedule"
    /\ \E i \in 1..Len(a.matches) :
           LET m == a.matches[i]
           IN  m.state = Some("POST") /\ ~WinLookup(m.teams[1], m.winnerTeamId).ok

\* C6: a failure inside one optional section is caught locally: the response
\* is still a success, and a schedule still holds every entry.
C6_SectionFailureIsLocal ==
    (pc = "out" /\ (FieldingFails(arg) \/ LiveFails(arg) \/ ResultFails(arg))) =>
        /\ IsSuccess(ret)
        /\ arg.kind = "schedule" => Len(ret.data.items) = Len(arg.matches)

\* What the code does instead: the one try block of the handler turns the
\* failure of any section into an error response without data.
C6_SectionFailureFailsAll ==
    (pc = "out" /\ (FieldingFails(arg) \/ LiveFails(arg) \/ ResultFails(arg))) =>
        ret = ErrorResponse(ret.error)

\* The series prefix a schedule request is to get: the supplied one, else the
\* first three segments of the series slug that are not gender tokens, else
\* none.
DuePrefix(a) ==
    IF a.prefix # << >> THEN a.prefix
    ELSE IF a.slug = Some(SeriesSlug) THEN <<"ipl", "-", "2024", "-", "t20">>
    ELSE IF a.slug = Some(ShortSlug) THEN <<"ipl">>
    ELSE << >>

\* The number i < 1000 in three digits.
Pad3(i) == <<DigitChars[(i \div 100) + 1], DigitChars[((i \div 10) % 10) + 1],
             DigitChars[(i % 10) + 1]>>
DueId(a, i) == IF DuePrefix(a) = << >> THEN Pad3(i) ELSE DuePrefix(a) \o <<"-">> \o Pad3(i)

\* Text x comes before text y: they first differ in a digit, smaller in x.
DigitOf(c) == CHOOSE d \in 0..9 : DigitChars[d + 1] = c
TextLess(x, y) ==
    \E k \in 1..Len(x) :
        /\ k <= Len(y)
        /\ \A j \in 1..(k - 1) : x[j] = y[j]
        /\ x[k] \in Range(DigitChars) /\ y[k] \in Range(DigitChars)
        /\ DigitOf(x[k]) < DigitOf(y[k])

\* The response holds one entry per match of the list, the i-th with the
\* identifier due to it, and the identifiers are pairwise distinct and
\* strictly increasing.
IdsAsDue ==
    LET items == ret.data.items
    IN  /\ Len(items) = Len(arg.matches)
        /\ \A i \in 1..Len(items) :
              /\ items[i].mid = DueId(arg, i)
              /\ items[i].entry.num = i
        /\ \A i, j \in 1..Len(items) :
              i < j => (items[i].mid # items[j].mid /\ TextLess(items[i].mid, items[j].mid))

-----------------------------------------------------------------------------
(* URL canonicalisation on pairs of URLs: specification SpecCanon *)

\* u without one trailing "/".
DropSlash(u) == IF u # << >> /\ u[Len(u)] = "/" THEN SubSeq(u, 1, Len(u) - 1) ELSE u

\* The part of a URL before its query string.
PathOf(u) == SplitQuery(u)

\* a and b differ only by their query string or by a trailing slash of the path.
DifferOnlyByQueryOrSlash(a, b) == DropSlash(PathOf(a)) = DropSlash(PathOf(b))

InitCanon ==
    /\ ServerInit
    /\ pc = "in"
    /\ arg \in {[kind |-> "canon", ep |-> e, a |-> p[1], b |-> p[2]] :
                   e \in Endpoints,
                   p \in {q \in Urls \X Urls : DifferOnlyByQueryOrSlash(q[1], q[2])}}
    /\ ret = EmptyDict

Canonicalize ==
    /\ pc = "in"
    /\ arg.kind = "canon"
    /\ ret' = [a |-> TargetUrl(arg.ep, arg.a), b |-> TargetUrl(arg.ep, arg.b)]
    /\ pc' = "out"
    /\ UNCHANGED <<arg, serverVars>>

NextCanon == Canonicalize

SpecCanon == InitCanon /\ [][NextCanon]_vars

\* C2: two input URLs that differ only by their query string or by a trailing
\* slash canonicalize to the same cache key and fetch target, on every endpoint.
C2_SameKey == pc = "out" => ret.a = ret.b

\* The part of C2 the code satisfies: URLs with the same path, whatever their
\* query strings, get the same key.
C2_QueryIgnored == (pc = "out" /\ PathOf(arg.a) = PathOf(arg.b)) => ret.a = ret.b

-----------------------------------------------------------------------------
(* format_innings on batting records: specifications SpecBatting, SpecFielding *)

MaxBatsmen == 2

\* Records of inningBatsmen that differ in what the inclusion rule reads.
BattingRecords ==
    [player : {None, Some(PlayerDict("p1")), Some(PlayerDict("p2"))},
     runs : {None, Some(0)},
     balls : {None, Some(0)},
     isOut : {Some(FALSE), Some(TRUE)},
     isBatting : {Some(FALSE), Some(TRUE)}]

\* Records that differ in what the fielding logic reads: dismissed with a
\* player (every type code, every fielder list, and a null fielder list),
\* dismissed without a player, and batting.
FielderLists ==
    {<< >>, <<Fielder("f1")>>, <<Fielder("f2")>>, <<Fielder("f1"), Fielder("f2")>>,
     <<Fielder("f1"), Fielder("f1")>>, <<[player |-> None], Fielder("f1")>>,
     <<[player |-> Some([slug |-> Some("")])], Fielder("f2")>>}
\* Type code 2 stands for a dismissal that is none of caught, stumped, run out.
FieldingRecords ==
    {[player |-> Some(PlayerDict("p1")), isOut |-> Some(TRUE), isBatting |-> Some(FALSE),
      dismissalType |-> Some(d), dismissalFielders |-> Some(fl)] :
        d \in {Caught, Stumped, RunOut, 2}, fl \in FielderLists}
    \cup
    {[player |-> None, isOut |-> Some(TRUE), isBatting |-> Some(FALSE),
      dismissalType |-> Some(Caught), dismissalFielders |-> Some(fl)] :
        fl \in {<<Fielder("f1")>>, <<Fielder("f2")>>}}
    \cup
    {[player |-> Some(PlayerDict("p2")), isOut |-> Some(FALSE), isBatting |-> Some(TRUE),
      dismissalType |-> Some(Caught), dismissalFielders |-> Some(<<Fielder("f1")>>)],
     [player |-> Some(PlayerDict("p1")), isOut |-> Some(TRUE), isBatting |-> Some(FALSE),
      dismissalType |-> Some(Caught), dismissalFielders |-> None]}

InningsOf(bs) == <<Some([inningBatsmen |-> Some(bs)])>>

InitBatting ==
    /\ ServerInit
    /\ pc = "in"
    /\ arg \in {[kind |-> "innings", batsmen |-> bs] : bs \in SeqsUpTo(BattingRecords, MaxBatsmen)}
    /\ ret = EmptyDict

InitFielding ==
    /\ ServerInit
    /\ pc = "in"
    /\ arg \in {[kind |-> "innings", batsmen |-> bs] : bs \in SeqsUpTo(FieldingRecords, MaxBatsmen)}
    /\ ret = EmptyDict

CallFormatInnings ==
    /\ pc = "in"
    /\ arg.kind = "innings"
    /\ ret' = FormatInnings(InningsOf(arg.batsmen), 0)
    /\ pc' = "out"
    /\ UNCHANGED <<arg, serverVars>>

NextInnings == CallFormatInnings

SpecBatting == InitBatting /\ [][NextInnings]_vars
SpecFielding == InitFielding /\ [][NextInnings]_vars

\* The inclusion rule in the claim's words: the record has a player and a
\* recorded runs value, a recorded balls value, isOut, or isBatting.
ActuallyBatted(b) ==
    /\ b.player # None
    /\ \/ b.runs # None
       \/ b.balls # None
       \/ b.isOut = Some(TRUE)
       \/ b.isBatting = Some(TRUE)

\* C9: the batting list holds exactly the records of inningBatsmen that have a
\* player and a recorded runs or balls value or the isOut or isBatting flag,
\* one entry each, in source order; no other player appears.
C9_BattingInclusion ==
    pc = "out" =>
        /\ ret.ok
        /\ ret.val # None
        /\ LET kept == SelectSeq(arg.batsmen, ActuallyBatted)
               batting == ret.val[1].batting
           IN  /\ Len(batting) = Len(kept)
               /\ \A j \in 1..Len(kept) :
                      /\ batting[j].id = kept[j].player[1].slug
                      /\ batting[j].r = kept[j].runs
                      /\ batting[j].b = kept[j].balls

\* Two records with a player: the first without any indicator is left out, the
\* second with nothing but a recorded 0 runs is listed.
C9_Witness ==
    /\ pc = "out"
    /\ Len(arg.batsmen) = 2
    /\ arg.batsmen[1] = [player |-> Some(PlayerDict("p1")), runs |-> None, balls |-> None,
                         isOut |-> Some(FALSE), isBatting |-> Some(FALSE)]
    /\ arg.batsmen[2] = [player |-> Some(PlayerDict("p2")), runs |-> Some(0), balls |-> None,
                         isOut |-> Some(FALSE), isBatting |-> Some(FALSE)]
    /\ ret.ok
    /\ Len(ret.val[1].batting) = 1
    /\ ret.val[1].batting[1].id = Some("p2")

FielderSlugs == {"f1", "f2"}

RefersTo(f, slug) == f.player # None /\ f.player[1].slug = Some(slug)

\* The references to fielder slug in the dismissalFielders of the records
\* i \in among, as (record, position) pairs; with type code d when d # 0.
References(bs, among, slug, d) ==
    UNION {{<<i, j>> : j \in {k \in 1..Len(bs[i].dismissalFielders[1]) :
                                 /\ RefersTo(bs[i].dismissalFielders[1][k], slug)
                                 /\ d # 0 => bs[i].dismissalType = Some(d)}} :
           i \in {x \in among : bs[x].dismissalFielders # None}}

MarkedOut(bs) == {i \in 1..Len(bs) : bs[i].isOut = Some(TRUE)}
MarkedOutWithPlayer(bs) == {i \in MarkedOut(bs) : bs[i].player # None}

\* The fielding list is the tally of the references made by the records among.
FieldingTallies(bs, among, fielding) ==
    /\ \A slug \in FielderSlugs :
           Cardinality({i \in 1..Len(fielding) : fielding[i].id = slug})
               = IF References(bs, among, slug, 0) # {} THEN 1 ELSE 0
    /\ \A i \in 1..Len(fielding) :
           /\ fielding[i].id \in FielderSlugs
           /\ fielding[i].c = Cardinality(References(bs, among, fielding[i].id, Caught))
           /\ fielding[i].st = Cardinality(References(bs, among, fielding[i].id, Stumped))
           /\ fielding[i].ro = Cardinality(References(bs, among, fielding[i].id, RunOut))

\* C8 as stated: one fielding entry per fielder slug referenced by the
\* dismissalFielders of a batting record marked out, with c, st, ro the numbers
\* of such references of type 1, 5, 4; nobody else has an entry.
C8_FieldingFromOutRecords ==
    (pc = "out" /\ ret.ok) =>
        FieldingTallies(arg.batsmen, MarkedOut(arg.batsmen), ret.val[1].fielding)

\* C8 as amended: the same, counting the records that are marked out and have
\* a player.
C8_FieldingFromOutRecordsWithPlayer ==
    (pc = "out" /\ ret.ok) =>
        FieldingTallies(arg.batsmen, MarkedOutWithPlayer(arg.batsmen), ret.val[1].fielding)

\* Two batters caught by f1, the second dismissal naming f2 as well.
C8_Witness ==
    /\ pc = "out"
    /\ Len(arg.batsmen) = 2
    /\ \A i \in 1..2 : /\ arg.batsmen[i].isOut = Some(TRUE)
                       /\ arg.batsmen[i].player # None
                       /\ arg.batsmen[i].dismissalType = Some(Caught)
    /\ arg.batsmen[1].dismissalFielders = Some(<<Fielder("f1")>>)
    /\ arg.batsmen[2].dismissalFielders = Some(<<Fielder("f1"), Fielder("f2")>>)
    /\ ret.ok
    /\ ret.val[1].fielding = <<[id |-> "f1", c |-> 2, st |-> 0, ro |-> 0],
                               [id |-> "f2", c |-> 1, st |-> 0, ro |-> 0]>>

-----------------------------------------------------------------------------
(* The server: specification Spec *)

\* main.py:36
CACHE_TTL == 60

\* A variant of the freshness test that still serves an entry at its expiry.
Fresh_Inclusive(cache, target_url, t) ==
    target_url \in DOMAIN cache /\ t <= cache[target_url].expiry

\* main.py:207-208, 277-278, 348: the entry exists and has not expired.
Fresh(cache, target_url, t) ==
    target_url \in DOMAIN cache /\ t < cache[target_url].expiry

\* CACHE[target_url] = {"expiry": ..., "data": ...}
Store(cache, target_url, expiry, data) ==
    [k \in DOMAIN cache \cup {target_url} |->
        IF k = target_url THEN [expiry |-> expiry, data |-> data] ELSE cache[k]]

\* What the client gets: the returned body, or the raised HTTPException.
Http200(body) == [status |-> 200, body |-> body]
Http500(detail) == [status |-> 500, detail |-> detail]

\* What a handler does: the cache it leaves, the outcome, the number of
\* upstream fetches it made.
Done(cache, outcome, fetches) == [cache |-> cache, outcome |-> outcome, fetches |-> fetches]

\* A variant of the end of a handler that stores whatever it returns.
Finish_StoreAlways(cache, target_url, expiry, r) ==
    Done(Store(cache, target_url, expiry, Returned(r)), Http200(Returned(r)), 1)

\* main.py:336-341 (and 267-271): the try block of a handler that has made one
\* fetch ended as r. Its response is stored and returned; if it raised, the
\* except clause returns the error response and nothing is stored.
Finish(cache, target_url, expiry, r) ==
    IF r.ok THEN Done(Store(cache, target_url, expiry, r.val), Http200(r.val), 1)
    ELSE Done(cache, Http200(ErrorResponse(r.exc)), 1)

\* main.py:273-341. t is the time of the lookup, t_store that of the store.
ScrapeMatchResult(cache, t, t_store, payload, page) ==
    LET target_url == CanonMatch(payload.url)
        raw_json == FetchJson(page)
    IN  IF Fresh(cache, target_url, t) THEN Done(cache, Http200(cache[target_url].data), 0)
        ELSE IF ~TruthyDict(raw_json) THEN Done(cache, Http500("Failed to fetch scorecard"), 1)
        ELSE Finish(cache, target_url, t_store + CACHE_TTL, MatchBody(raw_json[1]))

\* main.py:204-271
ScrapeScheduleResult(cache, t, t_store, payload, page) ==
    LET target_url == CanonPlain(payload.url)
        raw_json == FetchJson(page)
    IN  IF Fresh(cache, target_url, t) THEN Done(cache, Http200(cache[target_url].data), 0)
        ELSE IF ~TruthyDict(raw_json) THEN Done(cache, Http500("Failed to fetch data"), 1)
        ELSE Finish(cache, target_url, t_store + (CACHE_TTL * 5),
                    ScheduleBody(raw_json[1], payload.series_prefix))

\* main.py:425-430: the end of scrape_teams after fetches fetches.
FinishTeams(cache, target_url, expiry, result, fetches) ==
    IF result.stores
    THEN Done(Store(cache, target_url, expiry, result.response),
              Http200(result.response), fetches)
    ELSE Done(cache, Http200(result.response), 1)

\* main.py:343-430. team_pages are the answers to the team page fetches.
ScrapeTeamsResult(cache, t, t_store, payload, page, team_pages) ==
    LET target_url == CanonPlain(payload.url)
        raw_json == FetchJson(page)
    IN  IF Fresh(cache, target_url, t) THEN Done(cache, Http200(cache[target_url].data), 0)
        ELSE IF ~TruthyDict(raw_json) THEN Done(cache, Http500("Failed to fetch squads list"), 1)
        ELSE FinishTeams(cache, target_url, t_store + (CACHE_TTL * 60),
                         TeamsResult(raw_json[1], target_url,
                                     [k \in DOMAIN team_pages |-> FetchJson(team_pages[k])]),
                         1 + Len(team_pages))

\* The requests of the model. "a/s/a" is a series URL (it holds the text
\* /series/), "a" is a URL without it; ep is the route the payload is posted to.
SeriesUrl == <<"a", "/", "s", "/", "a">>
Payload(ep, url, series_prefix) == [ep |-> ep, url |-> url, series_prefix |-> series_prefix]
Payloads ==
    {Payload("match", SeriesUrl, << >>),
     Payload("schedule", SeriesUrl \o <<"/", "L">>, << >>),
     Payload("schedule", SeriesUrl \o <<"/", "L">>, <<"x">>),
     Payload("teams", SeriesUrl, << >>),
     Payload("teams", <<"a">>, << >>)}

\* The pages the upstream may answer with. The JSON pages:
MatchPage ==
    RawMatchJson("appPageProps", <<TeamEntry(1, TRUE), TeamEntry(2, FALSE)>>,
                 Some(<<Some(InnCurrent)>>), TRUE)
MatchPageBroken ==
    RawMatchJson("appPageProps", <<TeamEntry(1, TRUE), TeamEntry(2, FALSE)>>,
                 Some(<<Some(InnNullFielders)>>), FALSE)
SchedulePage ==
    RawScheduleJson("matches", <<SchedMatch("pre", TRUE, FALSE, None, TRUE)>>, Some(SeriesSlug))
SchedulePageBroken ==
    RawScheduleJson("matches", <<SchedMatch("POST", TRUE, FALSE, Some(1), FALSE)>>, None)
SquadsPage ==
    RawTeamsJson(<<SquadItem("india", 1, "India"), SquadItem("mars", 2, "Mars XI"),
                   [squad |-> Some([name |-> Some("Nobody")])]>>)
JsonPages == {MatchPage, MatchPageBroken, SchedulePage, SchedulePageBroken, SquadsPage}

\* The pages from which fetch_json gets nothing, and those with JSON.
Blocked == Page(200, FALSE, TRUE, FALSE, EmptyDict)
TagMissing == Page(200, FALSE, FALSE, FALSE, EmptyDict)
Unparsable == Page(200, TRUE, FALSE, FALSE, EmptyDict)
FailPages == {NetError, Page(503, FALSE, FALSE, FALSE, EmptyDict), Blocked, TagMissing,
              Unparsable, Page(200, TRUE, FALSE, TRUE, EmptyDict)}
Pages == FailPages \cup {Page(200, TRUE, FALSE, TRUE, j) : j \in JsonPages}

\* The page of the k-th team of SquadsPage.
TeamPageOf(k) ==
    IF k = 1
    THEN RawTeamJson("India",
                     <<[player |-> Some([slug |-> Some("virat"), longName |-> Some("Virat")]),
                        isCaptain |-> Some(TRUE)],
                       [player |-> Some([longName |-> Some("Nobody")])]>>)
    ELSE RawTeamJson("Mars XI", <<[slug |-> Some("marvin"), longName |-> Some("Marvin")]>>)

\* The answers to the team page fetches, those of the teams in failing failing.
TeamPages(n, failing) ==
    [k \in 1..n |-> IF k \in failing THEN TagMissing
                    ELSE Page(200, TRUE, FALSE, TRUE, TeamPageOf(k))]

\* How many team pages scrape_teams fetches after this page.
TeamFetchCount(payload, page) ==
    IF TruthyDict(FetchJson(page)) /\ SeriesId(CanonPlain(payload.url)).ok
    THEN TeamFetches(FetchJson(page)[1]) ELSE 0

\* Bounds of the server model.
MaxReqs == 2
\* A handler that misses takes a second for its fetches, a hit takes none.
\* The instants the clock may jump to are the second before and the second of
\* the expiry of an entry stored at time 1, by a request that arrived at 0.
MaxTime == 3602
Instants == {60, 61, 300, 301, 3600, 3601}
MissTime == {1}

Init ==
    /\ ServerInit
    /\ pc = "server"
    /\ arg = EmptyDict
    /\ ret = EmptyDict

\* The clock advances.
Tick ==
    /\ \E t \in Instants : t > now /\ now' = t
    /\ UNCHANGED <<CACHE, pending, served, last, stored, pureVars>>

\* A request arrives and waits for the event loop, where at most two wait.
Arrive ==
    /\ Len(pending) < 2
    /\ served + Len(pending) < MaxReqs
    /\ \E p \in Payloads : pending' = Append(pending, [payload |-> p, overlap |-> FALSE])
    /\ UNCHANGED <<now, CACHE, served, last, stored, pureVars>>

\* The pages that may answer the fetch of a handler, and how long it runs:
\* a handler that finds a fresh entry fetches nothing and takes no time.
PagesNow(target_url) == IF Fresh(CACHE, target_url, now) THEN {NetError} ELSE Pages
TimesNow(target_url) == IF Fresh(CACHE, target_url, now) THEN {0} ELSE MissTime
Fetched(target_url, fails) == IF Fresh(CACHE, target_url, now) THEN << >> ELSE fails

\* The requests that stay pending while the head is handled. One with the
\* key of the head is marked when the head found the cache cold for that key:
\* the two requests overlap in time.
StillPending(target_url) ==
    [i \in 1..(Len(pending) - 1) |->
        IF TargetUrl(pending[i + 1].payload.ep, pending[i + 1].payload.url) = target_url
           /\ ~Fresh(CACHE, target_url, now)
        THEN [pending[i + 1] EXCEPT !.overlap = TRUE]
        ELSE pending[i + 1]]

\* The state after the handler of the head of pending has run for d seconds
\* with result res; fails tells of each of its fetches, in order, whether it
\* failed.
Handled(target_url, res, d, fails) ==
    LET req == Head(pending)
    IN  /\ CACHE' = res.cache
        /\ now' = now + d
        /\ pending' = StillPending(target_url)
        /\ served' = served + 1
        /\ last' = [ep |-> req.payload.ep, key |-> target_url, at |-> now,
                    series_prefix |-> req.payload.series_prefix,
                    fetches |-> res.fetches, fails |-> Fetched(target_url, fails),
                    outcome |-> res.outcome, same |-> (res.cache = CACHE),
                    prev |-> IF target_url \in DOMAIN stored THEN Some(stored[target_url])
                             ELSE None,
                    overlap |-> req.overlap]
        /\ stored' = IF res.cache = CACHE THEN stored
                     ELSE [k \in DOMAIN stored \cup {target_url} |->
                              IF k = target_url
                              THEN [at |-> now + d, ep |-> req.payload.ep,
                                    series_prefix |-> req.payload.series_prefix,
                                    data |-> res.outcome.body]
                              ELSE stored[k]]
        /\ UNCHANGED pureVars

FailedFetch(page) == ~TruthyDict(FetchJson(page))

\* main.py:273-341 runs for the request at the head of the queue.
ScrapeMatch ==
    /\ pending # << >>
    /\ Head(pending).payload.ep = "match"
    /\ \E page \in PagesNow(CanonMatch(Head(pending).payload.url)),
          d \in TimesNow(CanonMatch(Head(pending).payload.url)) :
            /\ now + d <= MaxTime
            /\ Handled(CanonMatch(Head(pending).payload.url),
                       ScrapeMatchResult(CACHE, now, now + d, Head(pending).payload, page),
                       d, <<FailedFetch(page)>>)

\* main.py:204-271 runs for the request at the head of the queue.
ScrapeSchedule ==
    /\ pending # << >>
    /\ Head(pending).payload.ep = "schedule"
    /\ \E page \in PagesNow(CanonPlain(Head(pending).payload.url)),
          d \in TimesNow(CanonPlain(Head(pending).payload.url)) :
            /\ now + d <= MaxTime
            /\ Handled(CanonPlain(Head(pending).payload.url),
                       ScrapeScheduleResult(CACHE, now, now + d, Head(pending).payload, page),
                       d, <<FailedFetch(page)>>)

\* main.py:343-430 runs for the request at the head of the queue.
ScrapeTeams ==
    /\ pending # << >>
    /\ Head(pending).payload.ep = "teams"
    /\ \E page \in PagesNow(CanonPlain(Head(pending).payload.url)),
          d \in TimesNow(CanonPlain(Head(pending).payload.url)) :
          \E failing \in SUBSET (1..TeamFetchCount(Head(pending).payload, page)) :
            /\ now + d <= MaxTime
            /\ Handled(CanonPlain(Head(pending).payload.url),
                       ScrapeTeamsResult(CACHE, now, now + d, Head(pending).payload, page,
                           TeamPages(TeamFetchCount(Head(pending).payload, page), failing)),
                       d, <<FailedFetch(page)>> \o
                          [k \in 1..TeamFetchCount(Head(pending).payload, page) |->
                              k \in failing])

Next == Tick \/ Arrive \/ ScrapeMatch \/ ScrapeSchedule \/ ScrapeTeams

Spec == Init /\ [][Next]_vars

-----------------------------------------------------------------------------
(* Claims about the cache, checked on Spec *)

\* The time to live the entries of each endpoint are to have, in seconds.
TtlOf(ep) == IF ep = "match" THEN 60 ELSE IF ep = "schedule" THEN 300 ELSE 3600

HandledOne == last.ep # "none"
IsFailure(outcome) == outcome.status = 500 \/ ~IsSuccess(outcome.body)

\* C1: once a request has stored a response for a key at time t, a later
\* request for the key whose lookup happens before t + TTL (60 s for /match,
\* 300 s for /schedule, 3600 s for /teams entries) returns exactly the stored
\* response without any upstream fetch, and one whose lookup happens at or
\* after t + TTL fetches afresh.
C1_HitUntilTtl ==
    (HandledOne /\ last.prev # None) =>
        LET entry == last.prev[1]
        IN  /\ last.at < entry.at + TtlOf(entry.ep) =>
                 (last.fetches = 0 /\ last.outcome = Http200(entry.data) /\ last.same)
            /\ last.at >= entry.at + TtlOf(entry.ep) => last.fetches >= 1

\* A /teams request served from the cache in the last second of its entry.
C1_Witness ==
    /\ HandledOne /\ last.prev # None
    /\ last.ep = "teams" /\ last.prev[1].ep = "teams"
    /\ last.at = last.prev[1].at + 3599
    /\ last.fetches = 0

\* C3: a request that waited while another request for the same key found
\* the cache cold makes its own upstream fetch.
C3_NoDeduplication == (HandledOne /\ last.overlap) => last.fetches >= 1

\* The request's fetch of the requested page failed.
PageFetchFailed == last.fails # << >> /\ last.fails[1]
\* Some fetch of the request failed.
SomeFetchFailed == \E i \in 1..Len(last.fails) : last.fails[i]

FoundExpired ==
    /\ HandledOne /\ last.prev # None
    /\ last.at >= last.prev[1].at + TtlOf(last.prev[1].ep)

\* C11: after a request whose lookup found an expired entry, the cache holds
\* no entry for that key unless the request stored a fresh result; when the
\* request failed, the key is gone.
C11_ExpiredEntryDiscarded ==
    FoundExpired => (last.key \notin DOMAIN CACHE \/ ~last.same)

\* C13: a response served from the cache was stored by the same endpoint, for
\* the same series_prefix.
C13_HitFromSameEndpoint ==
    (HandledOne /\ last.fetches = 0) =>
        /\ last.prev[1].ep = last.ep
        /\ last.prev[1].series_prefix = last.series_prefix

-----------------------------------------------------------------------------
(* The outcome of a request on a cold cache: specification SpecFetch *)

\* What the handler of ep returns when the upstream answers with page (and,
\* for /teams, every team page is served).
ColdOutcome(ep, page) ==
    LET payload == Payload(ep, SeriesUrl, << >>)
    IN  IF ep = "match" THEN ScrapeMatchResult(EmptyDict, 0, 1, payload, page).outcome
        ELSE IF ep = "schedule"
             THEN ScrapeScheduleResult(EmptyDict, 0, 1, payload, page).outcome
        ELSE ScrapeTeamsResult(EmptyDict, 0, 1, payload, page,
                               TeamPages(TeamFetchCount(payload, page), {})).outcome

InitFetch ==
    /\ ServerInit
    /\ pc = "in"
    /\ arg \in {[kind |-> "fetch", ep |-> e, a |-> p, b |-> q] :
                   e \in Endpoints, p \in Pages, q \in Pages}
    /\ ret = EmptyDict

CallHandlers ==
    /\ pc = "in"
    /\ arg.kind = "fetch"
    /\ ret' = [a |-> ColdOutcome(arg.ep, arg.a), b |-> ColdOutcome(arg.ep, arg.b)]
    /\ pc' = "out"
    /\ UNCHANGED <<arg, serverVars>>

NextFetch == CallHandlers

SpecFetch == InitFetch /\ [][NextFetch]_vars

\* The class of a failed fetch: the tag is absent and the body holds the
\* bot-block marker, the tag is absent without the marker, the tag's text is
\* not JSON.
FailureClass(page) ==
    IF page.net # "ok" \/ page.status # 200 THEN "other"
    ELSE IF ~page.tag /\ page.marker THEN "Blocked"
    ELSE IF ~page.tag THEN "DataTagNotFound"
    ELSE IF ~page.parses THEN "MalformedPayload"
    ELSE "other"

\* C5: two requests to one endpoint whose fetches fail in different ones of
\* the classes Blocked, DataTagNotFound, MalformedPayload get different
\* outcomes.
C5_FailureClassesDistinct ==
    (/\ pc = "out"
     /\ FailureClass(arg.a) # "other"
     /\ FailureClass(arg.b) # "other"
     /\ FailureClass(arg.a) # FailureClass(arg.b)) => ret.a # ret.b

=============================================================================
